---- MODULE Spec2Model ----
(***************************************************************************)
(* Library management service: catalog, borrowing engine and late-fee      *)
(* calculator of library_service.py, over the persistence accessors of the *)
(* database module.                                                        *)
(*                                                                         *)
(* Time is counted in ticks, TicksPerDay ticks to a day.  Money is counted *)
(* in cents: every amount the code produces is a multiple of $0.50, so the *)
(* float arithmetic and round(.., 2) of the source are exact on cents.     *)
(* A string is a sequence of one-character strings.                        *)
(***************************************************************************)
EXTENDS Integers, Sequences, FiniteSets, TLC

VARIABLES books, borrow_records, now, result, calls

vars == <<books, borrow_records, now, result, calls>>

----------------------------------------------------------------------------
(* Bounds of the model *)

MaxBooks == 2
MaxCopies == 2
MaxRecords == 2
MaxReturns == 1
MaxOverdueDays == 61
TicksPerDay == 2

(* Program constants *)

LOAN_DAYS == 14
MAX_BORROW == 5
PATRON_ID_LEN == 6
ISBN_LEN == 13
MAX_TITLE_LEN == 200
MAX_AUTHOR_LEN == 100
HALF_RATE_DAYS == 7
HALF_RATE_CENTS == 50
FULL_RATE_CENTS == 100
FEE_CAP_CENTS == 1500

NULL == -1

LoanTicks == LOAN_DAYS * TicksPerDay

(* The limit specification: one loan more than the limit allows, on a      *)
(* catalog that has the copies for it.                                     *)
MaxLoans == MAX_BORROW + 1
LimitCopies == MaxCopies + 1

----------------------------------------------------------------------------
(* Strings *)

Digits == {"0", "1", "2", "3", "4", "5", "6", "7", "8", "9"}

Whitespace == {" "}

RECURSIVE lstrip(_)
lstrip(s) == IF s # <<>> /\ Head(s) \in Whitespace THEN lstrip(Tail(s)) ELSE s

RECURSIVE rstrip(_)
rstrip(s) ==
    IF s # <<>> /\ s[Len(s)] \in Whitespace
    THEN rstrip(SubSeq(s, 1, Len(s) - 1))
    ELSE s

strip(s) == rstrip(lstrip(s))

isdigit(s) == s # <<>> /\ \A i \in 1..Len(s) : s[i] \in Digits

Repeat(c, n) == [i \in 1..n |-> c]

----------------------------------------------------------------------------
(* Persistence accessors (module database) *)

None == [is_none |-> TRUE]

get_book_by_id(book_id) ==
    IF book_id \in DOMAIN books THEN books[book_id] ELSE None

get_book_by_isbn(isbn) ==
    IF \E i \in DOMAIN books : books[i].isbn = isbn
    THEN books[CHOOSE i \in DOMAIN books : books[i].isbn = isbn]
    ELSE None

get_patron_borrow_count(patron_id) ==
    Cardinality({i \in DOMAIN borrow_records :
                    /\ borrow_records[i].patron_id = patron_id
                    /\ borrow_records[i].return_date = NULL})

insert_book(bks, title, author, isbn, total_copies, available_copies) ==
    Append(bks, [id |-> Len(bks) + 1,
                 title |-> title,
                 author |-> author,
                 isbn |-> isbn,
                 total_copies |-> total_copies,
                 available_copies |-> available_copies])

insert_borrow_record(recs, patron_id, book_id, borrow_date, due_date) ==
    Append(recs, [patron_id |-> patron_id,
                  book_id |-> book_id,
                  borrow_date |-> borrow_date,
                  due_date |-> due_date,
                  return_date |-> NULL])

update_book_availability(bks, book_id, change) ==
    [bks EXCEPT ![book_id].available_copies = @ + change]

(* The update without its return_date IS NULL condition *)
update_borrow_record_return_date_all(recs, patron_id, book_id, return_date) ==
    [i \in DOMAIN recs |->
        IF recs[i].patron_id = patron_id /\ recs[i].book_id = book_id
        THEN [recs[i] EXCEPT !.return_date = return_date]
        ELSE recs[i]]

update_borrow_record_return_date(recs, patron_id, book_id, return_date) ==
    [i \in DOMAIN recs |->
        IF /\ recs[i].patron_id = patron_id
           /\ recs[i].book_id = book_id
           /\ recs[i].return_date = NULL
        THEN [recs[i] EXCEPT !.return_date = return_date]
        ELSE recs[i]]

----------------------------------------------------------------------------
(* Rendering of values inside messages.  A message is the sequence of the  *)
(* parts the f-string concatenates.                                        *)

strftime_ymd(t) == t \div TicksPerDay

(* f'{fee_amount:.2f}': dollars and two-digit cents *)
fmt_2f(cents) == <<cents \div 100, cents % 100>>

----------------------------------------------------------------------------
(* library_service.py *)

InvalidPatronId(patron_id) ==
    \/ patron_id = <<>>
    \/ ~isdigit(patron_id)
    \/ Len(patron_id) # PATRON_ID_LEN

(* A Python number: its type and its value, a float's value in tenths *)
PyInt(n) == [type |-> "int", value |-> n]

PyFloat(tenths) == [type |-> "float", value |-> tenths]

(* isinstance(x, int) *)
IsInt(x) == x.type = "int"

(* The title check with >= for > *)
TitleTooLong_ge(title) == Len(strip(title)) >= MAX_TITLE_LEN

(* Line 32 *)
TitleTooLong(title) == Len(strip(title)) > MAX_TITLE_LEN

(* The title stored as given *)
StoredTitle_raw(title) == title

(* Line 53: the title as stored *)
StoredTitle(title) == strip(title)

(* The duplicate check left out *)
IsbnTaken_skip(isbn) == FALSE

(* Lines 48-49: a book with this ISBN is in the catalog *)
IsbnTaken(isbn) == get_book_by_isbn(isbn) # None

add_book_to_catalog(title, author, isbn, total_copies, insert_ok) ==
    IF title = <<>> \/ strip(title) = <<>>
    THEN [success |-> FALSE, message |-> <<"Title is required.">>, books |-> books]
    ELSE IF TitleTooLong(title)
    THEN [success |-> FALSE,
          message |-> <<"Title must be less than 200 characters.">>,
          books |-> books]
    ELSE IF author = <<>> \/ strip(author) = <<>>
    THEN [success |-> FALSE, message |-> <<"Author is required.">>, books |-> books]
    ELSE IF Len(strip(author)) > MAX_AUTHOR_LEN
    THEN [success |-> FALSE,
          message |-> <<"Author must be less than 100 characters.">>,
          books |-> books]
    ELSE IF Len(isbn) # ISBN_LEN
    THEN [success |-> FALSE,
          message |-> <<"ISBN must be exactly 13 digits.">>,
          books |-> books]
    ELSE IF ~IsInt(total_copies) \/ total_copies.value <= 0
    THEN [success |-> FALSE,
          message |-> <<"Total copies must be a positive integer.">>,
          books |-> books]
    ELSE IF IsbnTaken(isbn)
    THEN [success |-> FALSE,
          message |-> <<"A book with this ISBN already exists.">>,
          books |-> books]
    ELSE IF insert_ok
    THEN [success |-> TRUE,
          message |-> <<"Book \"", strip(title),
                        "\" has been successfully added to the catalog.">>,
          books |-> insert_book(books, StoredTitle(title), strip(author), isbn,
                                total_copies.value, total_copies.value)]
    ELSE [success |-> FALSE,
          message |-> <<"Database error occurred while adding the book.">>,
          books |-> books]

(* The availability check with the boundary off by one *)
NotAvailable_strict(book) == book.available_copies < 0

NotAvailable(book) == book.available_copies <= 0

(* The change a loan makes to available_copies (line 98) *)
BORROW_CHANGE == -1

(* A return that puts two copies back *)
RETURN_CHANGE_double == 1 + 1

(* The change a return makes to available_copies (line 144) *)
RETURN_CHANGE == 1

(* The limit check with > for >= *)
LimitReached_gt(current_borrowed) == current_borrowed > MAX_BORROW

LimitReached(current_borrowed) == current_borrowed >= MAX_BORROW

(* A loan period of one week *)
DueDate_week(borrow_date) == borrow_date + HALF_RATE_DAYS * TicksPerDay

DueDate(borrow_date) == borrow_date + LoanTicks

(* The inserted record taken back when the availability update fails *)
RecordsAfterFailedDecrement_undone(before, inserted) == before

(* Lines 98-100: the failed availability update is reported and the record *)
(* inserted at line 94 stays                                               *)
RecordsAfterFailedDecrement(before, inserted) == inserted

borrow_book_by_patron(patron_id, book_id, insert_ok, availability_ok) ==
    LET book == get_book_by_id(book_id)
        fail(msg, recs, writes) ==
            [success |-> FALSE, message |-> msg, books |-> books,
             borrow_records |-> recs, writes |-> writes]
    IN
    IF InvalidPatronId(patron_id)
    THEN fail(<<"Invalid patron ID. Must be exactly 6 digits.">>, borrow_records,
              <<>>)
    ELSE IF book = None
    THEN fail(<<"Book not found.">>, borrow_records, <<>>)
    ELSE IF NotAvailable(book)
    THEN fail(<<"This book is currently not available.">>, borrow_records, <<>>)
    ELSE IF LimitReached(get_patron_borrow_count(patron_id))
    THEN fail(<<"You have reached the maximum borrowing limit of 5 books.">>,
              borrow_records, <<>>)
    ELSE
    LET borrow_date == now
        due_date == DueDate(borrow_date)
        recs == insert_borrow_record(borrow_records, patron_id, book_id,
                                     borrow_date, due_date)
    IN
    IF ~insert_ok
    THEN fail(<<"Database error occurred while creating borrow record.">>,
              borrow_records, <<"insert_borrow_record">>)
    ELSE IF ~availability_ok
    THEN fail(<<"Database error occurred while updating book availability.">>,
              RecordsAfterFailedDecrement(borrow_records, recs),
              <<"insert_borrow_record", "update_book_availability">>)
    ELSE [success |-> TRUE,
          message |-> <<"Successfully borrowed \"", book.title,
                        "\". Due date: ", strftime_ymd(due_date), ".">>,
          books |-> update_book_availability(books, book_id, BORROW_CHANGE),
          borrow_records |-> recs,
          writes |-> <<"insert_borrow_record", "update_book_availability">>]

(* Every overdue day at the rate of the first week *)
TieredFee_flat(days_overdue) ==
    LET fee_amount == days_overdue * HALF_RATE_CENTS
    IN IF fee_amount > FEE_CAP_CENTS THEN FEE_CAP_CENTS ELSE fee_amount

(* The tiered fee without the ceiling *)
TieredFee_nocap(days_overdue) ==
    IF days_overdue <= HALF_RATE_DAYS
    THEN days_overdue * HALF_RATE_CENTS
    ELSE (HALF_RATE_DAYS * HALF_RATE_CENTS)
         + ((days_overdue - HALF_RATE_DAYS) * FULL_RATE_CENTS)

(* Tiered fee of lines 222-233, in cents *)
TieredFee(days_overdue) ==
    LET fee_amount ==
            IF days_overdue <= HALF_RATE_DAYS
            THEN days_overdue * HALF_RATE_CENTS
            ELSE (HALF_RATE_DAYS * HALF_RATE_CENTS)
                 + ((days_overdue - HALF_RATE_DAYS) * FULL_RATE_CENTS)
    IN IF fee_amount > FEE_CAP_CENTS THEN FEE_CAP_CENTS ELSE fee_amount

(* (check_date - due_date).days: timedelta.days is the floor of the        *)
(* difference in days, also for a negative difference.                     *)
DaysBetween(due_date, check_date) == (check_date - due_date) \div TicksPerDay

(* The assessment that reads the clock also for a returned record *)
AssessRecord_now(borrow_record, at) ==
    LET days_overdue == DaysBetween(borrow_record.due_date, at)
    IN
    IF days_overdue <= 0
    THEN [fee_amount |-> 0, days_overdue |-> 0, status |-> "Not overdue"]
    ELSE [fee_amount |-> TieredFee(days_overdue),
          days_overdue |-> days_overdue,
          status |-> "Overdue"]

(* Lines 197-239: the assessment of one borrow record at instant at *)
AssessRecord(borrow_record, at) ==
    LET due_date == borrow_record.due_date
        check_date == IF borrow_record.return_date # NULL
                      THEN borrow_record.return_date
                      ELSE at
        days_overdue == DaysBetween(due_date, check_date)
    IN
    IF days_overdue <= 0
    THEN [fee_amount |-> 0, days_overdue |-> 0, status |-> "Not overdue"]
    ELSE [fee_amount |-> TieredFee(days_overdue),
          days_overdue |-> days_overdue,
          status |-> IF days_overdue > 0 THEN "Overdue" ELSE "Not overdue"]

(* ORDER BY borrow_date ASC LIMIT 1: the oldest record of the pair *)
LatestRecordIndex_oldest(recs, patron_id, book_id) ==
    LET matching == {i \in DOMAIN recs :
                        /\ recs[i].patron_id = patron_id
                        /\ recs[i].book_id = book_id}
    IN IF matching = {} THEN 0
       ELSE CHOOSE i \in matching : \A j \in matching : i <= j

(* ORDER BY borrow_date DESC LIMIT 1.  A tick is coarser than the clock of *)
(* the program: records inserted within one tick keep their clock order,   *)
(* which is their insertion order.                                         *)
LatestRecordIndex(recs, patron_id, book_id) ==
    LET matching == {i \in DOMAIN recs :
                        /\ recs[i].patron_id = patron_id
                        /\ recs[i].book_id = book_id}
    IN IF matching = {} THEN 0
       ELSE CHOOSE i \in matching :
                \A j \in matching :
                    \/ recs[j].borrow_date < recs[i].borrow_date
                    \/ (recs[j].borrow_date = recs[i].borrow_date /\ j <= i)

calculate_late_fee_for_book(recs, patron_id, book_id, at) ==
    LET i == LatestRecordIndex(recs, patron_id, book_id)
    IN IF i = 0
       THEN [fee_amount |-> 0, days_overdue |-> 0,
             status |-> "No borrow record found"]
       ELSE AssessRecord(recs[i], at)

(* The lookup without its return_date IS NULL condition *)
HasOpenRecord_any(recs, patron_id, book_id) ==
    \E i \in DOMAIN recs :
        recs[i].patron_id = patron_id /\ recs[i].book_id = book_id

(* SELECT ... WHERE patron_id = ? AND book_id = ? AND return_date IS NULL *)
HasOpenRecord(recs, patron_id, book_id) ==
    \E i \in DOMAIN recs :
        /\ recs[i].patron_id = patron_id
        /\ recs[i].book_id = book_id
        /\ recs[i].return_date = NULL

(* The closed record reopened when the availability update fails *)
RecordsAfterFailedIncrement_undone(before, closed) == before

(* Lines 144-146: the failed availability update is reported and the       *)
(* return date written at line 139 stays                                   *)
RecordsAfterFailedIncrement(before, closed) == closed

return_book_by_patron(patron_id, book_id, update_ok, availability_ok) ==
    LET book == get_book_by_id(book_id)
        fail(msg, recs, writes) ==
            [success |-> FALSE, message |-> msg, books |-> books,
             borrow_records |-> recs, writes |-> writes]
    IN
    IF InvalidPatronId(patron_id)
    THEN fail(<<"Invalid patron ID. Must be exactly 6 digits.">>, borrow_records,
              <<>>)
    ELSE IF book = None
    THEN fail(<<"Book not found.">>, borrow_records, <<>>)
    ELSE IF ~HasOpenRecord(borrow_records, patron_id, book_id)
    THEN fail(<<"No active borrow record found for this patron and book.">>,
              borrow_records, <<>>)
    ELSE
    LET return_date == now
        recs == update_borrow_record_return_date(borrow_records, patron_id,
                                                 book_id, return_date)
        late_fee_info == calculate_late_fee_for_book(recs, patron_id, book_id, now)
        fee_amount == late_fee_info.fee_amount
        days_overdue == late_fee_info.days_overdue
    IN
    IF ~update_ok
    THEN fail(<<"Database error occurred while updating return date.">>,
              borrow_records, <<"update_borrow_record_return_date">>)
    ELSE IF ~availability_ok
    THEN fail(<<"Database error occurred while updating book availability.">>,
              RecordsAfterFailedIncrement(borrow_records, recs),
              <<"update_borrow_record_return_date", "update_book_availability">>)
    ELSE [success |-> TRUE,
          message |->
              IF fee_amount > 0
              THEN <<"Successfully returned \"", book.title, "\".",
                     " Late fee: $", fmt_2f(fee_amount), " (", days_overdue,
                     " days overdue).">>
              ELSE <<"Successfully returned \"", book.title, "\".",
                     " No late fees.">>,
          books |-> update_book_availability(books, book_id, RETURN_CHANGE),
          borrow_records |-> recs,
          writes |-> <<"update_borrow_record_return_date",
                       "update_book_availability">>]

----------------------------------------------------------------------------
(* Inputs of the calls *)

PATRON_A == <<"1", "2", "3", "4", "5", "6">>
PATRON_B == <<"7", "8", "9", "0", "1", "2">>

ValidPatrons == {PATRON_A, PATRON_B}

InvalidPatrons ==
    {<<>>, <<"1", "2", "3", "4", "5">>, <<"1", "2", "A", "4", "5", "6">>}

BookIdInputs == 1..(MaxBooks + 1)

(* (patron_id, book_id) of a call: every valid patron with every book id,   *)
(* one of them unknown, and every malformed patron id.                      *)
CallInputs == (ValidPatrons \X BookIdInputs) \cup (InvalidPatrons \X {1})

ISBN_1 == Repeat("1", ISBN_LEN)
ISBN_2 == Repeat("2", ISBN_LEN)

ValidIsbns == {ISBN_1, ISBN_2}

(* (title, author, isbn, total_copies) of an add: the valid ones, a blank   *)
(* title, a blank author, a short ISBN and a copy count of 0.               *)
AddInputs ==
    ({<<" ", "T", " ">>} \X {<<"A", " ">>} \X ValidIsbns \X (0..MaxCopies))
    \cup {<<(<<" ">>), (<<"A">>), ISBN_1, 1>>,
          <<(<<"T">>), (<<>>), ISBN_1, 1>>,
          <<(<<"T">>), (<<"A">>), Repeat("1", ISBN_LEN - 1), 1>>}

(* Instants at which the clock is read: the start, and a whole day past    *)
(* the due date of a loan made at the start.                               *)
Instants == {0, LoanTicks + TicksPerDay}

----------------------------------------------------------------------------
(* The service as a state machine: one call at a time on an initially      *)
(* empty database, every persistence write succeeding.  A call runs to     *)
(* completion and leaves its return value in result; Reply hands it to the *)
(* caller, after which the next call can be made.                          *)

Idle == [op |-> "none"]

(* No call is in progress between two steps *)
NoCalls == <<>>

Init ==
    /\ books = <<>>
    /\ borrow_records = <<>>
    /\ now = 0
    /\ result = Idle
    /\ calls = NoCalls

AddBook(title, author, isbn, total_copies) ==
    LET r == add_book_to_catalog(title, author, isbn, total_copies, TRUE)
    IN /\ result = Idle
       /\ books' = r.books
       /\ result' = [op |-> "add_book", success |-> r.success,
                     message |-> r.message]
       /\ UNCHANGED <<borrow_records, now, calls>>

Borrow(patron_id, book_id) ==
    LET r == borrow_book_by_patron(patron_id, book_id, TRUE, TRUE)
    IN /\ result = Idle
       /\ books' = r.books
       /\ borrow_records' = r.borrow_records
       /\ result' = [op |-> "borrow", success |-> r.success,
                     message |-> r.message]
       /\ UNCHANGED <<now, calls>>

Return(patron_id, book_id) ==
    LET r == return_book_by_patron(patron_id, book_id, TRUE, TRUE)
    IN /\ result = Idle
       /\ books' = r.books
       /\ borrow_records' = r.borrow_records
       /\ result' = [op |-> "return", success |-> r.success,
                     message |-> r.message]
       /\ UNCHANGED <<now, calls>>

LateFee(patron_id, book_id) ==
    /\ result = Idle
    /\ result' = [op |-> "late_fee",
                  info |-> calculate_late_fee_for_book(borrow_records, patron_id,
                                                       book_id, now)]
    /\ UNCHANGED <<books, borrow_records, now, calls>>

Reply ==
    /\ result # Idle
    /\ result' = Idle
    /\ UNCHANGED <<books, borrow_records, now, calls>>

Tick(t) ==
    /\ result = Idle
    /\ t > now
    /\ now' = t
    /\ UNCHANGED <<books, borrow_records, result, calls>>

DoAddBook ==
    /\ Len(books) < MaxBooks
    /\ \E a \in AddInputs : AddBook(a[1], a[2], a[3], PyInt(a[4]))

DoBorrow ==
    /\ Len(borrow_records) < MaxRecords
    /\ \E c \in CallInputs : Borrow(c[1], c[2])

DoReturn == \E c \in CallInputs : Return(c[1], c[2])

DoLateFee == \E c \in CallInputs : LateFee(c[1], c[2])

DoTick == \E t \in Instants : Tick(t)

Next == DoAddBook \/ DoBorrow \/ DoReturn \/ DoLateFee \/ DoTick \/ Reply

Spec == Init /\ [][Next]_vars

----------------------------------------------------------------------------
(* The borrowing limit: the same calls on a catalog stocked with           *)
(* 1 or LimitCopies copies of each title, long enough for a patron to reach *)
(* MAX_BORROW open loans.  The clock stands still.                         *)

ClosedCount ==
    Cardinality({i \in DOMAIN borrow_records :
                    borrow_records[i].return_date # NULL})

LimitAddBook ==
    /\ Len(books) < MaxBooks
    /\ \E isbn \in ValidIsbns, total_copies \in {1, LimitCopies} :
        AddBook(<<"T">>, <<"A">>, isbn, PyInt(total_copies))

LimitBorrow ==
    /\ Len(borrow_records) < MaxLoans
    /\ \E patron_id \in ValidPatrons, book_id \in 1..MaxBooks :
        Borrow(patron_id, book_id)

LimitReturn ==
    /\ ClosedCount < MaxReturns
    /\ \E patron_id \in ValidPatrons, book_id \in 1..MaxBooks :
        Return(patron_id, book_id)

NextLimit == LimitAddBook \/ LimitBorrow \/ LimitReturn \/ Reply

SpecLimit == Init /\ [][NextLimit]_vars

----------------------------------------------------------------------------
(* The late-fee calculator on its own: a database holding no loan or one   *)
(* loan of book 1 by PATRON_A, open or returned at any instant, assessed   *)
(* at any instant up to MaxOverdueDays + 1 days past the due date.         *)

MaxFeeTick == LoanTicks + TicksPerDay * (MaxOverdueDays + 1)

FeeBook(available_copies) ==
    [id |-> 1, title |-> <<"T">>, author |-> <<"A">>, isbn |-> ISBN_1,
     total_copies |-> 1, available_copies |-> available_copies]

FeeLoan(borrow_date, return_date) ==
    [patron_id |-> PATRON_A, book_id |-> 1, borrow_date |-> borrow_date,
     due_date |-> DueDate(borrow_date), return_date |-> return_date]

FeeInit ==
    /\ now \in 0..MaxFeeTick
    /\ result = Idle
    /\ calls = NoCalls
    /\ \/ /\ books = <<FeeBook(1)>>
          /\ borrow_records = <<>>
       \/ \E borrow_date \in 0..1 :
            /\ borrow_date <= now
            /\ \/ /\ books = <<FeeBook(0)>>
                  /\ borrow_records = <<FeeLoan(borrow_date, NULL)>>
               \/ \E return_date \in borrow_date..now :
                    /\ books = <<FeeBook(1)>>
                    /\ borrow_records = <<FeeLoan(borrow_date, return_date)>>

NextFee == DoLateFee \/ Reply

SpecFee == FeeInit /\ [][NextFee]_vars

----------------------------------------------------------------------------
(* Vocabulary of the properties *)

IsOpen(r) == r.return_date = NULL

OpenLoans(recs, patron_id) ==
    {i \in DOMAIN recs : recs[i].patron_id = patron_id /\ IsOpen(recs[i])}

OpenLoansOf(recs, patron_id, book_id) ==
    {i \in OpenLoans(recs, patron_id) : recs[i].book_id = book_id}

ExistingBookIds == DOMAIN books

Failed(message) == result'.success = FALSE /\ result'.message = <<message>>

DatabaseUnchanged == UNCHANGED <<books, borrow_records>>

MSG_NOT_AVAILABLE == "This book is currently not available."
MSG_LIMIT == "You have reached the maximum borrowing limit of 5 books."
MSG_NO_ACTIVE == "No active borrow record found for this patron and book."

----------------------------------------------------------------------------
(* C1: in every state reached by add, borrow and return calls made one at  *)
(* a time with every write succeeding, every book has                      *)
(* 0 <= available_copies <= total_copies.                                  *)
C1_AvailabilityInRange ==
    \A b \in DOMAIN books :
        /\ 0 <= books[b].available_copies
        /\ books[b].available_copies <= books[b].total_copies

(* A book lent, returned and lent again, its last copy now out *)
C1_Witness ==
    /\ \E b \in DOMAIN books :
        /\ books[b].available_copies = 0
        /\ \E i, j \in DOMAIN borrow_records :
            /\ borrow_records[i].book_id = b /\ ~IsOpen(borrow_records[i])
            /\ borrow_records[j].book_id = b /\ IsOpen(borrow_records[j])
    /\ result.op = "borrow"
    /\ result.success

(* C2: in every state reached by borrow and return calls made one at a     *)
(* time, no patron holds more than 5 open borrow records, counted across   *)
(* all books.                                                              *)
C2_AtMostFiveOpenLoans ==
    \A i \in DOMAIN borrow_records :
        Cardinality(OpenLoans(borrow_records, borrow_records[i].patron_id)) <= 5

(* A patron whose fifth loan has just been granted, the five spread over   *)
(* two books                                                               *)
C2_Witness ==
    /\ result.op = "borrow"
    /\ result.success
    /\ \E p \in ValidPatrons :
        /\ Cardinality(OpenLoans(borrow_records, p)) = 5
        /\ OpenLoansOf(borrow_records, p, 1) # {}
        /\ OpenLoansOf(borrow_records, p, 2) # {}

(* C3: for a valid patron and an existing book with available_copies > 0,  *)
(* borrow fails with the limit message, creates no record and leaves       *)
(* availability unchanged when the patron has 5 or more open records, and  *)
(* succeeds when the patron has 4 or fewer and both writes succeed.        *)
C3_LimitBoundary ==
    [][\A p \in ValidPatrons, b \in ExistingBookIds :
        (Borrow(p, b) /\ books[b].available_copies > 0) =>
            /\ Cardinality(OpenLoans(borrow_records, p)) >= 5 =>
                (Failed(MSG_LIMIT) /\ DatabaseUnchanged)
            /\ Cardinality(OpenLoans(borrow_records, p)) <= 4 =>
                result'.success]_vars

(* The sixth loan has just been refused although a copy was on the shelf *)
C3_Witness ==
    /\ result.op = "borrow"
    /\ result.success = FALSE
    /\ result.message = <<MSG_LIMIT>>
    /\ \E p \in ValidPatrons : Cardinality(OpenLoans(borrow_records, p)) = 5
    /\ \E b \in DOMAIN books : books[b].available_copies > 0

(* C4: whenever a book has available_copies = 0, a borrow of it by a valid *)
(* patron fails with the not-available message, whatever its total_copies  *)
(* and the patron's number of open loans, creates no record and leaves     *)
(* available_copies unchanged.                                             *)
C4_NoCopyNoLoan ==
    [][\A p \in ValidPatrons, b \in ExistingBookIds :
        (Borrow(p, b) /\ books[b].available_copies = 0) =>
            (Failed(MSG_NOT_AVAILABLE) /\ DatabaseUnchanged)]_vars

(* A borrow has just been refused as not available while a patron is at    *)
(* the limit, one book is out of copies and the other is not               *)
C4_Witness ==
    /\ result.op = "borrow"
    /\ result.success = FALSE
    /\ result.message = <<MSG_NOT_AVAILABLE>>
    /\ \E b \in DOMAIN books : books[b].available_copies = 0
    /\ \E b \in DOMAIN books : books[b].available_copies > 0
    /\ \E p \in ValidPatrons : Cardinality(OpenLoans(borrow_records, p)) = 5

(* C5: a successful borrow(p, b) adds exactly one open record for (p, b)   *)
(* whose due_date is its borrow_date plus 14 days, decreases               *)
(* available_copies of b by exactly 1, and leaves every other book, every  *)
(* other borrow record and b's total_copies unchanged.                     *)
C5_BorrowEffect ==
    [][\A c \in CallInputs :
        (Borrow(c[1], c[2]) /\ result'.success) =>
            /\ Len(borrow_records') = Len(borrow_records) + 1
            /\ \A i \in DOMAIN borrow_records :
                borrow_records'[i] = borrow_records[i]
            /\ LET r == borrow_records'[Len(borrow_records')]
               IN /\ r.patron_id = c[1]
                  /\ r.book_id = c[2]
                  /\ IsOpen(r)
                  /\ r.due_date = r.borrow_date + 14 * TicksPerDay
            /\ DOMAIN books' = DOMAIN books
            /\ books'[c[2]] =
                 [books[c[2]] EXCEPT !.available_copies = @ - 1]
            /\ \A o \in DOMAIN books \ {c[2]} : books'[o] = books[o]]_vars

(* A second loan has just been granted, after the clock has moved, with    *)
(* another book and another record in the database                         *)
C5_Witness ==
    /\ result.op = "borrow"
    /\ result.success
    /\ Len(books) = 2
    /\ Len(borrow_records) = 2
    /\ borrow_records[2].borrow_date = now
    /\ now > 0
    /\ borrow_records[1].book_id # borrow_records[2].book_id

(* C6: return(p, b) by a valid patron of an existing book fails with "No   *)
(* active borrow record found" whenever no open record exists for (p, b),  *)
(* also when closed records exist for the pair, and then changes no record *)
(* and no available_copies.                                                *)
C6_ReturnNeedsOpenLoan ==
    [][\A p \in ValidPatrons, b \in ExistingBookIds :
        (Return(p, b) /\ OpenLoansOf(borrow_records, p, b) = {}) =>
            (Failed(MSG_NO_ACTIVE) /\ DatabaseUnchanged)]_vars

(* A return has just been refused for want of an open loan while either    *)
(* patron has a returned loan of the only book and nothing is on loan      *)
C6_Witness ==
    /\ result.op = "return"
    /\ result.success = FALSE
    /\ result.message = <<MSG_NO_ACTIVE>>
    /\ Len(books) = 1
    /\ \A i \in DOMAIN borrow_records : ~IsOpen(borrow_records[i])
    /\ \A p \in ValidPatrons :
        \E i \in DOMAIN borrow_records : borrow_records[i].patron_id = p

(* C7: a successful return(p, b) sets the return_date of the open record   *)
(* for (p, b), increases available_copies of b by exactly 1, and leaves    *)
(* every other book and every record of another (patron, book) pair        *)
(* unchanged.                                                              *)
C7_ReturnEffect ==
    [][\A c \in CallInputs :
        (Return(c[1], c[2]) /\ result'.success) =>
            /\ DOMAIN borrow_records' = DOMAIN borrow_records
            /\ \E i \in OpenLoansOf(borrow_records, c[1], c[2]) :
                borrow_records'[i] =
                    [borrow_records[i] EXCEPT !.return_date = now]
            /\ \A i \in DOMAIN borrow_records :
                (borrow_records[i].patron_id # c[1]
                    \/ borrow_records[i].book_id # c[2]) =>
                        borrow_records'[i] = borrow_records[i]
            /\ DOMAIN books' = DOMAIN books
            /\ books'[c[2]] =
                 [books[c[2]] EXCEPT !.available_copies = @ + 1]
            /\ \A o \in DOMAIN books \ {c[2]} : books'[o] = books[o]]_vars

(* A loan has just been returned late while the other patron still holds   *)
(* a copy of the other book                                                *)
C7_Witness ==
    /\ result.op = "return"
    /\ result.success
    /\ Len(books) = 2
    /\ \E i, j \in DOMAIN borrow_records :
        /\ borrow_records[i].return_date = now
        /\ now > borrow_records[i].due_date
        /\ IsOpen(borrow_records[j])
        /\ borrow_records[j].patron_id # borrow_records[i].patron_id
        /\ borrow_records[j].book_id # borrow_records[i].book_id

(* The whole number of days from one instant to another: the d with       *)
(* d days <= to - from < d + 1 days.                                       *)
WholeDays(from, to) ==
    CHOOSE d \in (-(LOAN_DAYS + 1))..(MaxOverdueDays + 1) :
        /\ d * TicksPerDay <= to - from
        /\ to - from < (d + 1) * TicksPerDay

(* The fee schedule as the specification states it, in cents *)
ScheduledFee(d) ==
    IF d <= 0 THEN 0
    ELSE IF d <= 7 THEN 50 * d
    ELSE IF 350 + 100 * (d - 7) < 1500 THEN 350 + 100 * (d - 7)
    ELSE 1500

RecordsOf(patron_id, book_id) ==
    {i \in DOMAIN borrow_records :
        /\ borrow_records[i].patron_id = patron_id
        /\ borrow_records[i].book_id = book_id}

(* C8: with d the whole number of days from the due date to the reference  *)
(* instant (the return date of a returned loan, otherwise now), the        *)
(* assessment has fee 0.00 and status "Not overdue" when d <= 0, fee       *)
(* 0.50*d when 1 <= d <= 7, fee min(15.00, 3.50 + 1.00*(d-7)) when d > 7,  *)
(* and days_overdue = d with status "Overdue" when d > 0; d = 5, 7, 10,    *)
(* 11, 36, 60 give 2.50, 3.50, 6.50, 7.50, 15.00, 15.00.                   *)
C8_FeeSchedule ==
    [][\A c \in CallInputs :
        (LateFee(c[1], c[2]) /\ RecordsOf(c[1], c[2]) # {}) =>
            LET r == borrow_records[CHOOSE i \in RecordsOf(c[1], c[2]) : TRUE]
                reference == IF IsOpen(r) THEN now ELSE r.return_date
                d == WholeDays(r.due_date, reference)
                a == result'.info
            IN /\ a.fee_amount = ScheduledFee(d)
               /\ d <= 0 => a.status = "Not overdue"
               /\ d > 0 => (a.days_overdue = d /\ a.status = "Overdue")
               /\ d = 5 => a.fee_amount = 250
               /\ d = 7 => a.fee_amount = 350
               /\ d = 10 => a.fee_amount = 650
               /\ d = 11 => a.fee_amount = 750
               /\ d \in {36, 60} => a.fee_amount = 1500]_vars

(* An open loan has just been assessed 60 days past its due date *)
C8_Witness ==
    /\ result.op = "late_fee"
    /\ result.info = [fee_amount |-> 1500, days_overdue |-> 60,
                      status |-> "Overdue"]
    /\ Len(borrow_records) = 1
    /\ IsOpen(borrow_records[1])

(* C9: every assessment has 0.00 <= fee_amount <= 15.00, days_overdue >= 0 *)
(* and one of the three statuses, with fee_amount > 0 exactly when the     *)
(* status is "Overdue"; when no record exists for the pair it is fee 0.00, *)
(* 0 days, "No borrow record found".                                       *)
C9_AssessmentRange ==
    [][\A c \in CallInputs :
        LateFee(c[1], c[2]) =>
            LET a == result'.info
            IN /\ 0 <= a.fee_amount
               /\ a.fee_amount <= 1500
               /\ a.days_overdue >= 0
               /\ a.status \in {"No borrow record found", "Not overdue",
                                "Overdue"}
               /\ (a.fee_amount > 0) <=> (a.status = "Overdue")
               /\ RecordsOf(c[1], c[2]) = {} =>
                    a = [fee_amount |-> 0, days_overdue |-> 0,
                         status |-> "No borrow record found"]]_vars

(* A pair without a record has just been assessed while another pair's     *)
(* loan is far enough overdue for the ceiling                              *)
C9_Witness ==
    /\ result.op = "late_fee"
    /\ result.info.status = "No borrow record found"
    /\ Len(borrow_records) = 1
    /\ IsOpen(borrow_records[1])
    /\ now > borrow_records[1].due_date + 19 * TicksPerDay

(* C10: from a book added with 1 copy, a borrow by patron A succeeds; a    *)
(* following borrow of the book by another patron B fails as not           *)
(* available; a return by A before the due date succeeds with a message    *)
(* ending in "No late fees."; after it the book has available_copies = 1   *)
(* again and a borrow by B succeeds.  (A patron below the borrowing limit  *)
(* is the patron of the scenario.)                                         *)
OneCopyOnShelf(b) ==
    /\ b \in DOMAIN books
    /\ books[b].total_copies = 1
    /\ books[b].available_copies = 1

HeldBy(p, b) ==
    /\ b \in DOMAIN books
    /\ books[b].total_copies = 1
    /\ books[b].available_copies = 0
    /\ OpenLoansOf(borrow_records, p, b) # {}

C10_SingleCopyScenario ==
    [][\A b \in ExistingBookIds, p \in ValidPatrons, q \in ValidPatrons :
        /\ (/\ OneCopyOnShelf(b)
            /\ Cardinality(OpenLoans(borrow_records, p)) < 5
            /\ Borrow(p, b)) =>
                (result'.success /\ HeldBy(p, b)')
        /\ (p # q /\ HeldBy(p, b) /\ Borrow(q, b)) =>
                (Failed(MSG_NOT_AVAILABLE) /\ DatabaseUnchanged)
        /\ (/\ HeldBy(p, b)
            /\ \A i \in OpenLoansOf(borrow_records, p, b) :
                 now < borrow_records[i].due_date
            /\ Return(p, b)) =>
                /\ result'.success
                /\ result'.message[Len(result'.message)] = " No late fees."
                /\ OneCopyOnShelf(b)']_vars

(* The end of the scenario: the only copy, returned in time by one patron, *)
(* has just been lent to the other                                         *)
C10_Witness ==
    /\ result.op = "borrow"
    /\ result.success
    /\ Len(books) = 1
    /\ books[1].total_copies = 1
    /\ books[1].available_copies = 0
    /\ Len(borrow_records) = 2
    /\ ~IsOpen(borrow_records[1])
    /\ borrow_records[1].return_date < borrow_records[1].due_date
    /\ IsOpen(borrow_records[2])
    /\ borrow_records[2].patron_id # borrow_records[1].patron_id

----------------------------------------------------------------------------
(* The catalog manager alone: add_book_to_catalog calls, one at a time, with *)
(* arguments on both sides of every check of lines 29-45.                  *)

LongTitle == Repeat("t", MAX_TITLE_LEN)
LongAuthor == Repeat("a", MAX_AUTHOR_LEN)

AddTitles ==
    {<<>>, <<" ">>, <<" ", "T", " ">>, <<" ">> \o LongTitle \o <<" ">>,
     LongTitle \o <<"t">>}

AddAuthors ==
    {<<>>, <<" ", " ">>, <<"A", " ">>, LongAuthor, LongAuthor \o <<"a">>}

ISBN_X == Repeat("X", ISBN_LEN)

AddIsbns ==
    {ISBN_1, ISBN_X, Repeat("1", ISBN_LEN - 1), Repeat("1", ISBN_LEN + 1)}

AddCopies == {PyInt(-1), PyInt(0), PyInt(1), PyFloat(15)}

CatalogAdd ==
    /\ Len(books) < MaxBooks
    /\ \E title \in AddTitles, author \in AddAuthors, isbn \in AddIsbns,
          total_copies \in AddCopies :
        AddBook(title, author, isbn, total_copies)

NextAdd == CatalogAdd \/ Reply

SpecAdd == Init /\ [][NextAdd]_vars

MSG_EXISTS == "A book with this ISBN already exists."

NoSharedIsbn ==
    \A i \in DOMAIN books, j \in DOMAIN books :
        books[i].isbn = books[j].isbn => i = j

(* The arguments pass the checks of lines 29-45 *)
ArgumentsPass(title, author, isbn, total_copies) ==
    /\ strip(title) # <<>>
    /\ Len(strip(title)) <= 200
    /\ strip(author) # <<>>
    /\ Len(strip(author)) <= 100
    /\ Len(isbn) = 13
    /\ total_copies.type = "int"
    /\ total_copies.value > 0

(* C11, as stated: in every state reached by add calls no two books share  *)
(* an ISBN, and every add whose ISBN is that of an existing book is        *)
(* rejected with "already exists" and inserts nothing.                     *)
C11_AsStated ==
    /\ []NoSharedIsbn
    /\ [][\A title \in AddTitles, author \in AddAuthors, isbn \in AddIsbns,
             total_copies \in AddCopies :
            (/\ AddBook(title, author, isbn, total_copies)
             /\ \E b \in DOMAIN books : books[b].isbn = isbn) =>
                (Failed(MSG_EXISTS) /\ books' = books)]_vars

(* C11, amended: in every state reached by add calls no two books share an *)
(* ISBN; every add whose ISBN is that of an existing book is rejected and  *)
(* inserts nothing, with "already exists" when its other arguments pass    *)
(* the argument checks and with the message of the first failing argument  *)
(* check otherwise.                                                        *)
C11_UniqueIsbn ==
    /\ []NoSharedIsbn
    /\ [][\A title \in AddTitles, author \in AddAuthors, isbn \in AddIsbns,
             total_copies \in AddCopies :
            (/\ AddBook(title, author, isbn, total_copies)
             /\ \E b \in DOMAIN books : books[b].isbn = isbn) =>
                /\ result'.success = FALSE
                /\ books' = books
                /\ ArgumentsPass(title, author, isbn, total_copies)
                     <=> (result'.message = <<MSG_EXISTS>>)]_vars

(* A second add with the ISBN of the only book has just been rejected as a *)
(* duplicate                                                               *)
C11_Witness ==
    /\ result.op = "add_book"
    /\ result.success = FALSE
    /\ result.message = <<MSG_EXISTS>>
    /\ Len(books) = 1

Blank(s) == \A k \in 1..Len(s) : s[k] = " "

(* The message of the first argument check that fails, in the order title, *)
(* author, ISBN, copy count; "" when every check passes                    *)
FirstFailingCheck(title, author, isbn, total_copies) ==
    IF Blank(title) THEN "Title is required."
    ELSE IF Len(strip(title)) > 200
    THEN "Title must be less than 200 characters."
    ELSE IF Blank(author) THEN "Author is required."
    ELSE IF Len(strip(author)) > 100
    THEN "Author must be less than 100 characters."
    ELSE IF Len(isbn) # 13 THEN "ISBN must be exactly 13 digits."
    ELSE IF total_copies.type # "int" \/ total_copies.value <= 0
    THEN "Total copies must be a positive integer."
    ELSE ""

C13_AddEffect ==
    [][\A a \in AddInputs :
        (result'.op = "add_book" /\ AddBook(a[1], a[2], a[3], PyInt(a[4]))) =>
            /\ result'.success =>
                /\ Len(books') = Len(books) + 1
                /\ \A b \in DOMAIN books : books'[b] = books[b]
                /\ books'[Len(books')].total_copies = a[4]
                /\ books'[Len(books')].available_copies = a[4]
                /\ books'[Len(books')].isbn = a[3]
                /\ books'[Len(books')].title = strip(a[1])
                /\ books'[Len(books')].author = strip(a[2])
                /\ a[1] = <<" ", "T", " ">> =>
                     books'[Len(books')].title = <<"T">>
                /\ a[2] = <<"A", " ">> =>
                     books'[Len(books')].author = <<"A">>
                /\ borrow_records' = borrow_records
            /\ ~result'.success => DatabaseUnchanged]_vars

(* A second book has just been added, from a padded title and author,      *)
(* while a copy of the first is on loan                                    *)
C13_Witness ==
    /\ result.op = "add_book"
    /\ result.success
    /\ Len(books) = 2
    /\ books[2].title = <<"T">>
    /\ books[2].author = <<"A">>
    /\ books[2].available_copies = MaxCopies
    /\ \E i \in DOMAIN borrow_records :
        IsOpen(borrow_records[i]) /\ borrow_records[i].book_id = 1

(* C14: in every state reached by borrow and return calls there is at most *)
(* one open borrow record per (patron, book) pair.  borrow_book_by_patron  *)
(* never looks for an open record of the pair (lines 71-100), so a patron  *)
(* who borrows a second copy of a book they hold gets a second open record.*)
C14_OneOpenRecordPerPair ==
    \A p \in ValidPatrons, b \in DOMAIN books :
        Cardinality(OpenLoansOf(borrow_records, p, b)) <= 1

----------------------------------------------------------------------------
(* Payment processor: pay_late_fees and refund_late_fee_payment of         *)
(* services/library_service.py, over the payment gateway.  The gateway is   *)
(* the caller's: its behaviour on the one call it may receive is an input. *)
(* A result lists the gateway calls the operation made.                    *)

(* transaction_id | None *)
NoTransaction == <<>>

Transaction(id) == <<id>>

(* What the gateway does when called: it returns (success, transaction_id, *)
(* message), or raises an exception whose text is message                  *)
GatewayReturns(success, transaction_id, message) ==
    [raises |-> FALSE, success |-> success, transaction_id |-> transaction_id,
     message |-> message]

GatewayRaises(text) ==
    [raises |-> TRUE, success |-> FALSE, transaction_id |-> "", message |-> text]

PaymentDeclined(message) == <<"Payment failed: ", message>>

(* The gateway fault reported without its text *)
PaymentFault_bare(text) == <<"Payment processing error">>

PaymentFault(text) == <<"Payment processing error: ", text>>

(* The zero-fee check left out *)
NothingToPay_skip(fee_amount) == FALSE

NothingToPay(fee_amount) == fee_amount = 0

pay_late_fees(patron_id, fee_info, book, gateway) ==
    LET fail(msg) == [success |-> FALSE, message |-> msg,
                      transaction_id |-> NoTransaction, gateway_calls |-> <<>>]
    IN
    IF InvalidPatronId(patron_id)
    THEN fail(<<"Invalid patron ID. Must be exactly 6 digits.">>)
    ELSE IF fee_info = None \/ "fee_amount" \notin DOMAIN fee_info
    THEN fail(<<"Unable to calculate late fees">>)
    ELSE IF NothingToPay(fee_info.fee_amount)
    THEN fail(<<"No late fees to pay">>)
    ELSE IF book = None
    THEN fail(<<"Book not found">>)
    ELSE
        LET call == [patron_id |-> patron_id,
                     amount |-> fee_info.fee_amount,
                     description |-> <<"Late fees for '", book.title, "'">>]
        IN IF gateway.raises
           THEN [success |-> FALSE, message |-> PaymentFault(gateway.message),
                 transaction_id |-> NoTransaction, gateway_calls |-> <<call>>]
           ELSE IF gateway.success
           THEN [success |-> TRUE, message |-> <<"Payment successful!">>,
                 transaction_id |-> Transaction(gateway.transaction_id),
                 gateway_calls |-> <<call>>]
           ELSE [success |-> FALSE, message |-> PaymentDeclined(gateway.message),
                 transaction_id |-> NoTransaction, gateway_calls |-> <<call>>]

(* The prefix of a payment transaction id *)
TXN_PREFIX == <<"t", "x", "n", "_">>

startswith(s, prefix) ==
    Len(s) >= Len(prefix) /\ SubSeq(s, 1, Len(prefix)) = prefix

(* The ceiling check with >= for > *)
RefundTooLarge_ge(amount) == amount >= FEE_CAP_CENTS

RefundTooLarge(amount) == amount > FEE_CAP_CENTS

(* The gateway's refusal passed on as it came *)
RefundDeclined_verbatim(message) == <<message>>

(* test_refund_declined_by_gateway: the refusal is reported as             *)
(* "Refund failed: <gateway message>"                                      *)
RefundDeclined(message) == <<"Refund failed: ", message>>

RefundFault(text) == <<"Refund processing error: ", text>>

refund_late_fee_payment(transaction_id, amount, gateway) ==
    LET fail(msg) == [success |-> FALSE, message |-> msg, gateway_calls |-> <<>>]
        call == [transaction_id |-> transaction_id, amount |-> amount]
    IN
    IF transaction_id = <<>> \/ ~startswith(transaction_id, TXN_PREFIX)
    THEN fail(<<"Invalid transaction ID">>)
    ELSE IF amount <= 0
    THEN fail(<<"Refund amount must be greater than 0">>)
    ELSE IF RefundTooLarge(amount)
    THEN fail(<<"Refund amount exceeds maximum late fee">>)
    ELSE IF gateway.raises
    THEN [success |-> FALSE, message |-> RefundFault(gateway.message),
          gateway_calls |-> <<call>>]
    ELSE IF gateway.success
    THEN [success |-> TRUE, message |-> <<gateway.message>>,
          gateway_calls |-> <<call>>]
    ELSE [success |-> FALSE, message |-> RefundDeclined(gateway.message),
          gateway_calls |-> <<call>>]

(* Inputs of the payment calls *)

PaymentGateways ==
    {GatewayReturns(TRUE, "txn_123456_success", "Payment processed successfully"),
     GatewayReturns(FALSE, "", "Insufficient funds"),
     GatewayReturns(FALSE, "txn_declined", "Card declined"),
     GatewayRaises("Network timeout")}

RefundGateways ==
    {GatewayReturns(TRUE, "", "Refund processed successfully"),
     GatewayReturns(FALSE, "", "Transaction already refunded"),
     GatewayRaises("Connection refused")}

(* calculate_late_fee_for_book stubbed to a dict without fee_amount *)
NoFeeAmount == [days_overdue |-> 5, status |-> "Overdue"]

TXN_1 == TXN_PREFIX \o <<"1">>

TransactionIds ==
    {<<>>, TXN_1, TXN_PREFIX, <<"t", "x", "n">>, <<"i", "d", "_", "1">>,
     <<"x">> \o TXN_1}

RefundAmounts ==
    {-500, -1, 0, 1, 50, FEE_CAP_CENTS - 1, FEE_CAP_CENTS, FEE_CAP_CENTS + 1,
     2000}

(* The payment calls on a database with one open loan of PATRON_A, read at *)
(* an instant up to MaxPayDays days past its due date.  The fee assessment *)
(* and the book are those of the database, or stubbed as in the tests.     *)
MaxPayDays == 20

PayInit ==
    /\ books = <<FeeBook(0)>>
    /\ borrow_records = <<FeeLoan(0, NULL)>>
    /\ now \in 0..(LoanTicks + TicksPerDay * MaxPayDays)
    /\ result = Idle
    /\ calls = NoCalls

FeeInfoOf(stub, patron_id, book_id) ==
    CASE stub = "none" -> None
      [] stub = "no fee_amount" -> NoFeeAmount
      [] OTHER -> calculate_late_fee_for_book(borrow_records, patron_id,
                                              book_id, now)

BookOf(stub, book_id) ==
    IF stub = "none" THEN None ELSE get_book_by_id(book_id)

PayLateFees(patron_id, book_id, fee_stub, book_stub, gateway) ==
    LET r == pay_late_fees(patron_id, FeeInfoOf(fee_stub, patron_id, book_id),
                           BookOf(book_stub, book_id), gateway)
    IN /\ result = Idle
       /\ result' = [op |-> "pay", success |-> r.success, message |-> r.message,
                     transaction_id |-> r.transaction_id,
                     gateway_calls |-> r.gateway_calls]
       /\ UNCHANGED <<books, borrow_records, now, calls>>

RefundLateFeePayment(transaction_id, amount, gateway) ==
    LET r == refund_late_fee_payment(transaction_id, amount, gateway)
    IN /\ result = Idle
       /\ result' = [op |-> "refund", success |-> r.success,
                     message |-> r.message, gateway_calls |-> r.gateway_calls]
       /\ UNCHANGED <<books, borrow_records, now, calls>>

FeeStubs == {"real", "none", "no fee_amount"}
BookStubs == {"real", "none"}

DoPay ==
    \E c \in CallInputs, fee_stub \in FeeStubs, book_stub \in BookStubs,
       gateway \in PaymentGateways :
        PayLateFees(c[1], c[2], fee_stub, book_stub, gateway)

DoRefund ==
    \E transaction_id \in TransactionIds, amount \in RefundAmounts,
       gateway \in RefundGateways :
        RefundLateFeePayment(transaction_id, amount, gateway)

NextPay == DoPay \/ DoRefund \/ Reply

SpecPay == PayInit /\ [][NextPay]_vars

Malformed(patron_id) ==
    ~(Len(patron_id) = 6 /\ \A k \in 1..Len(patron_id) : patron_id[k] \in Digits)

(* The first reason, in the order patron id, fee assessment, fee amount,   *)
(* book, for which a payment call is refused before the gateway; "" when   *)
(* there is none                                                           *)
PayRefusal(patron_id, book_id, fee_stub, book_stub) ==
    IF Malformed(patron_id) THEN "Invalid patron ID. Must be exactly 6 digits."
    ELSE IF fee_stub \in {"none", "no fee_amount"}
    THEN "Unable to calculate late fees"
    ELSE IF FeeInfoOf(fee_stub, patron_id, book_id).fee_amount = 0
    THEN "No late fees to pay"
    ELSE IF book_stub = "none" \/ book_id \notin DOMAIN books
    THEN "Book not found"
    ELSE ""

(* C15: pay_late_fees never calls gateway.process_payment when the patron  *)
(* id is malformed, when the fee assessment is missing or lacks            *)
(* fee_amount, when the fee amount is 0, or when the book is unknown; in   *)
(* each case it returns failure with a null transaction id, and the checks *)
(* are applied in that order.                                              *)
C15_NoGatewayCall ==
    [][\A c \in CallInputs, fee_stub \in FeeStubs, book_stub \in BookStubs,
         gateway \in PaymentGateways :
        (/\ PayLateFees(c[1], c[2], fee_stub, book_stub, gateway)
         /\ PayRefusal(c[1], c[2], fee_stub, book_stub) # "") =>
            /\ result'.gateway_calls = <<>>
            /\ result'.success = FALSE
            /\ result'.transaction_id = NoTransaction
            /\ result'.message =
                 <<PayRefusal(c[1], c[2], fee_stub, book_stub)>>]_vars

(* A payment for an overdue loan has just been refused without a gateway   *)
(* call because the book was not found                                     *)
C15_Witness ==
    /\ result.op = "pay"
    /\ result.success = FALSE
    /\ result.message = <<"Book not found">>
    /\ result.gateway_calls = <<>>
    /\ now >= borrow_records[1].due_date + TicksPerDay

(* C16: when gateway.process_payment raises, pay_late_fees returns failure *)
(* with the message "Payment processing error: <fault text>" and a null    *)
(* transaction id, having called the gateway exactly once; a transaction   *)
(* id is returned only when the gateway reported success.                  *)
C16_GatewayFault ==
    [][\A c \in CallInputs, fee_stub \in FeeStubs, book_stub \in BookStubs,
         gateway \in PaymentGateways :
        PayLateFees(c[1], c[2], fee_stub, book_stub, gateway) =>
            /\ (/\ PayRefusal(c[1], c[2], fee_stub, book_stub) = ""
                /\ gateway.raises) =>
                    /\ result'.success = FALSE
                    /\ result'.message =
                         <<"Payment processing error: ", gateway.message>>
                    /\ result'.transaction_id = NoTransaction
                    /\ Len(result'.gateway_calls) = 1
            /\ result'.transaction_id # NoTransaction =>
                    /\ Len(result'.gateway_calls) = 1
                    /\ ~gateway.raises
                    /\ gateway.success
                    /\ result'.success
                    /\ result'.transaction_id = <<gateway.transaction_id>>]_vars

(* The gateway has just raised on the one call of a payment of 3.50 *)
C16_Witness ==
    /\ result.op = "pay"
    /\ result.success = FALSE
    /\ result.message = <<"Payment processing error: ", "Network timeout">>
    /\ Len(result.gateway_calls) = 1
    /\ result.gateway_calls[1].amount = 350

CarriesPrefix(transaction_id) ==
    /\ Len(transaction_id) >= 4
    /\ transaction_id[1] = "t"
    /\ transaction_id[2] = "x"
    /\ transaction_id[3] = "n"
    /\ transaction_id[4] = "_"

(* C17: refund_late_fee_payment calls gateway.refund_payment if and only   *)
(* if the transaction id is non-empty and carries the "txn_" prefix and    *)
(* 0 < amount <= 15.00: 15.00 is accepted and forwarded, 15.01 is rejected *)
(* with "Refund amount exceeds maximum late fee", an amount <= 0 with      *)
(* "Refund amount must be greater than 0", and a bad transaction id with   *)
(* "Invalid transaction ID" before the amount is examined.                 *)
C17_RefundValidation ==
    [][\A transaction_id \in TransactionIds, amount \in RefundAmounts,
         gateway \in RefundGateways :
        RefundLateFeePayment(transaction_id, amount, gateway) =>
            /\ (result'.gateway_calls # <<>>) <=>
                 (/\ transaction_id # <<>>
                  /\ CarriesPrefix(transaction_id)
                  /\ 0 < amount
                  /\ amount <= 1500)
            /\ (CarriesPrefix(transaction_id) /\ amount = 1500) =>
                 result'.gateway_calls =
                    <<[transaction_id |-> transaction_id, amount |-> 1500]>>
            /\ (CarriesPrefix(transaction_id) /\ amount = 1501) =>
                 Failed("Refund amount exceeds maximum late fee")
            /\ (CarriesPrefix(transaction_id) /\ amount <= 0) =>
                 Failed("Refund amount must be greater than 0")
            /\ ~CarriesPrefix(transaction_id) =>
                 Failed("Invalid transaction ID")]_vars

(* A refund of exactly 15.00 has just been forwarded to the gateway *)
C17_Witness ==
    /\ result.op = "refund"
    /\ result.success
    /\ result.gateway_calls = <<[transaction_id |-> TXN_1, amount |-> 1500]>>

(* C18, as stated: when gateway.refund_payment returns normally, the       *)
(* refund returns the gateway's success flag with the gateway's message    *)
(* verbatim, for an accepted and for a declined refund; when the gateway   *)
(* raises, it returns failure with "Refund processing error: <fault        *)
(* text>".                                                                 *)
C18_AsStated ==
    [][\A transaction_id \in TransactionIds, amount \in RefundAmounts,
         gateway \in RefundGateways :
        (/\ RefundLateFeePayment(transaction_id, amount, gateway)
         /\ result'.gateway_calls # <<>>) =>
            /\ ~gateway.raises =>
                /\ result'.success = gateway.success
                /\ result'.message = <<gateway.message>>
            /\ gateway.raises =>
                /\ result'.success = FALSE
                /\ result'.message =
                     <<"Refund processing error: ", gateway.message>>]_vars

(* C18, amended: when gateway.refund_payment returns normally, the refund  *)
(* returns the gateway's success flag, with the gateway's message verbatim *)
(* for an accepted refund and with "Refund failed: <gateway message>" for  *)
(* a declined one; when the gateway raises, it returns failure with        *)
(* "Refund processing error: <fault text>".                                *)
C18_RefundOutcome ==
    [][\A transaction_id \in TransactionIds, amount \in RefundAmounts,
         gateway \in RefundGateways :
        (/\ RefundLateFeePayment(transaction_id, amount, gateway)
         /\ result'.gateway_calls # <<>>) =>
            /\ ~gateway.raises => result'.success = gateway.success
            /\ (~gateway.raises /\ gateway.success) =>
                result'.message = <<gateway.message>>
            /\ (~gateway.raises /\ ~gateway.success) =>
                result'.message = <<"Refund failed: ", gateway.message>>
            /\ gateway.raises =>
                /\ result'.success = FALSE
                /\ result'.message =
                     <<"Refund processing error: ", gateway.message>>]_vars

(* The gateway has just declined a refund it was asked for *)
C18_Witness ==
    /\ result.op = "refund"
    /\ result.success = FALSE
    /\ result.message = <<"Refund failed: ", "Transaction already refunded">>
    /\ Len(result.gateway_calls) = 1

----------------------------------------------------------------------------
(* search_books_in_catalog (lines 241-295) and the SQL it issues *)

(* The characters of the model in the order of their codes *)
Alphabet ==
    <<" ", "%", "0", "1", "2", "3", "4", "5", "6", "7", "8", "9",
      "A", "T", "X", "_", "a", "t", "x">>

CharRank(c) == CHOOSE k \in 1..Len(Alphabet) : Alphabet[k] = c

(* SQL LOWER on one character and on a string *)
LowerChar(c) ==
    CASE c = "A" -> "a"
      [] c = "T" -> "t"
      [] c = "X" -> "x"
      [] OTHER -> c

LOWER(s) == [k \in 1..Len(s) |-> LowerChar(s[k])]

(* SQL LIKE: % matches any run of characters, _ any one character *)
RECURSIVE LIKE(_, _)
LIKE(s, pattern) ==
    IF pattern = <<>> THEN s = <<>>
    ELSE IF Head(pattern) = "%"
    THEN LIKE(s, Tail(pattern)) \/ (s # <<>> /\ LIKE(Tail(s), pattern))
    ELSE IF Head(pattern) = "_"
    THEN s # <<>> /\ LIKE(Tail(s), Tail(pattern))
    ELSE s # <<>> /\ Head(s) = Head(pattern) /\ LIKE(Tail(s), Tail(pattern))

RECURSIVE StringLess(_, _)
StringLess(s, t) ==
    IF t = <<>> THEN FALSE
    ELSE IF s = <<>> THEN TRUE
    ELSE IF Head(s) # Head(t) THEN CharRank(Head(s)) < CharRank(Head(t))
    ELSE StringLess(Tail(s), Tail(t))

(* ORDER BY title; rows of equal title in the order of their ids *)
RECURSIVE ORDER_BY_title(_)
ORDER_BY_title(ids) ==
    IF ids = {} THEN <<>>
    ELSE LET first == CHOOSE i \in ids : \A j \in ids \ {i} :
                        \/ StringLess(books[i].title, books[j].title)
                        \/ books[i].title = books[j].title /\ i < j
         IN <<books[first]>> \o ORDER_BY_title(ids \ {first})

(* An ISBN lookup that also takes the ISBNs the term begins *)
IsbnMatches_prefix(isbn, search_term) ==
    Len(isbn) >= Len(search_term)
    /\ SubSeq(isbn, 1, Len(search_term)) = search_term

(* Line 271: WHERE isbn = ? *)
IsbnMatches(isbn, search_term) == isbn = search_term

VALID_TYPES == {"title", "author", "isbn"}

(* The check of the search term left out *)
EmptyTerm_never(search_term) == FALSE

(* Line 255: not search_term *)
EmptyTerm(search_term) == search_term = <<>>

(* Line 262 *)
InvalidType(search_type) == search_type \notin VALID_TYPES

search_books_in_catalog(search_term, search_type) ==
    IF EmptyTerm(search_term) THEN <<>>
    ELSE IF InvalidType(search_type) THEN <<>>
    ELSE IF search_type = "isbn"
    THEN ORDER_BY_title({i \in DOMAIN books :
                            IsbnMatches(books[i].isbn, search_term)})
    ELSE IF search_type = "title"
    THEN ORDER_BY_title({i \in DOMAIN books :
            LIKE(LOWER(books[i].title),
                 LOWER(<<"%">> \o search_term \o <<"%">>))})
    ELSE IF search_type = "author"
    THEN ORDER_BY_title({i \in DOMAIN books :
            LIKE(LOWER(books[i].author),
                 LOWER(<<"%">> \o search_term \o <<"%">>))})
    ELSE <<>>


(* The catalog searched: books of two titles and two authors are added,    *)
(* copies are lent, and search calls are made in between.                  *)

SearchTitles == {<<"T", "a">>, <<"a", "t">>}
SearchAuthors == {<<"A">>, <<"X", "a">>}

SearchTerms ==
    {<<>>, ISBN_1, ISBN_2, ISBN_X, SubSeq(ISBN_1, 1, ISBN_LEN - 1),
     <<"1">>, ISBN_1 \o <<"1">>, <<"t">>, <<"A">>, <<"_">>, <<"%">>}

SearchTypes == {"title", "author", "isbn", "", "ISBN", "publisher"}

SearchBooks(search_term, search_type) ==
    /\ result = Idle
    /\ result' = [op |-> "search", search_term |-> search_term,
                  books |-> search_books_in_catalog(search_term, search_type)]
    /\ UNCHANGED <<books, borrow_records, now, calls>>

SearchAdd ==
    /\ Len(books) < MaxBooks
    /\ \E title \in SearchTitles, author \in SearchAuthors,
          isbn \in ValidIsbns \cup {ISBN_X} :
        AddBook(title, author, isbn, PyInt(1))

SearchBorrow ==
    /\ Len(borrow_records) < MaxRecords
    /\ \E book_id \in 1..MaxBooks : Borrow(PATRON_A, book_id)

DoSearch ==
    \E search_term \in SearchTerms, search_type \in SearchTypes :
        SearchBooks(search_term, search_type)

NextSearch == SearchAdd \/ SearchBorrow \/ DoSearch \/ Reply

SpecSearch == Init /\ [][NextSearch]_vars

(* C19: after a successful add with ISBN i, an ISBN search for i returns   *)
(* exactly one book, whose ISBN is i; an ISBN search returns only books    *)
(* whose ISBN equals the term exactly, so a proper prefix of a stored ISBN *)
(* matches nothing.                                                        *)
C19_IsbnRoundTrip ==
    [][\A search_term \in SearchTerms :
        SearchBooks(search_term, "isbn") =>
            /\ \A k \in DOMAIN result'.books :
                result'.books[k].isbn = search_term
            /\ (\E b \in DOMAIN books : books[b].isbn = search_term) =>
                /\ Len(result'.books) = 1
                /\ result'.books[1].isbn = search_term
            /\ (\E b \in DOMAIN books :
                    /\ Len(search_term) < Len(books[b].isbn)
                    /\ SubSeq(books[b].isbn, 1, Len(search_term)) = search_term)
                 => result'.books = <<>>]_vars

(* An ISBN search has just returned the one book of that ISBN out of a     *)
(* catalog of two                                                          *)
C19_Witness ==
    /\ result.op = "search"
    /\ result.search_term = ISBN_1
    /\ Len(result.books) = 1
    /\ result.books[1].isbn = ISBN_1
    /\ Len(books) = 2

(* C20: a search returns an empty list, whatever the catalog, whenever the *)
(* term is empty or the type is not one of "title", "author", "isbn"; and  *)
(* no search changes any book or borrow record.                            *)
C20_SearchShortCircuit ==
    [][\A search_term \in SearchTerms, search_type \in SearchTypes :
        (/\ result'.op = "search"
         /\ result'.search_term = search_term
         /\ SearchBooks(search_term, search_type)) =>
            /\ (search_term = <<>> \/ search_type \notin {"title", "author", "isbn"})
                 => result'.books = <<>>
            /\ DatabaseUnchanged]_vars

(* A search with an empty term has just returned nothing from a catalog    *)
(* with books and a loan                                                   *)
C20_Witness ==
    /\ result.op = "search"
    /\ result.search_term = <<>>
    /\ result.books = <<>>
    /\ Len(books) = 2
    /\ borrow_records # <<>>

----------------------------------------------------------------------------
(* The patron status reporter (lines 297-388) *)

(* database.get_patron_borrowed_books: the open records of the patron,     *)
(* joined with their books, oldest borrow first.                           *)
get_patron_borrowed_books(recs, patron_id, at) ==
    LET open == {i \in DOMAIN recs :
                    /\ recs[i].patron_id = patron_id
                    /\ recs[i].return_date = NULL
                    /\ recs[i].book_id \in DOMAIN books}
        RECURSIVE rows(_)
        rows(todo) ==
            IF todo = {} THEN <<>>
            ELSE LET i == CHOOSE k \in todo :
                            \A j \in todo :
                                \/ recs[k].borrow_date < recs[j].borrow_date
                                \/ (recs[k].borrow_date = recs[j].borrow_date
                                        /\ k <= j)
                 IN <<[book_id |-> recs[i].book_id,
                       title |-> books[recs[i].book_id].title,
                       author |-> books[recs[i].book_id].author,
                       borrow_date |-> recs[i].borrow_date,
                       due_date |-> recs[i].due_date,
                       is_overdue |-> at > recs[i].due_date]>>
                    \o rows(todo \ {i})
    IN rows(open)

(* Lines 326-339: one entry of currently_borrowed *)
BorrowedEntry(recs, patron_id, book, at) ==
    LET late_fee_info == calculate_late_fee_for_book(recs, patron_id,
                                                     book.book_id, at)
    IN [book_id |-> book.book_id,
        title |-> book.title,
        author |-> book.author,
        borrow_date |-> strftime_ymd(book.borrow_date),
        due_date |-> strftime_ymd(book.due_date),
        is_overdue |-> book.is_overdue,
        late_fee |-> late_fee_info.fee_amount]

(* The fee of the first entry alone *)
total_late_fees_first(borrowed_books_list) ==
    IF borrowed_books_list = <<>> THEN 0 ELSE borrowed_books_list[1].late_fee

(* Lines 324, 329 and 385: the fees of the entries added up *)
total_late_fees(borrowed_books_list) ==
    LET RECURSIVE add(_)
        add(list) == IF list = <<>> THEN 0
                     ELSE list[1].late_fee + add(Tail(list))
    IN add(borrowed_books_list)

(* Lines 342-381: every record of the patron, newest borrow first *)
borrowing_history(recs, patron_id) ==
    LET mine == {i \in DOMAIN recs :
                    /\ recs[i].patron_id = patron_id
                    /\ recs[i].book_id \in DOMAIN books}
        RECURSIVE rows(_)
        rows(todo) ==
            IF todo = {} THEN <<>>
            ELSE LET i == CHOOSE k \in todo :
                            \A j \in todo :
                                \/ recs[j].borrow_date < recs[k].borrow_date
                                \/ (recs[j].borrow_date = recs[k].borrow_date
                                        /\ j <= k)
                 IN <<[book_id |-> recs[i].book_id,
                       title |-> books[recs[i].book_id].title,
                       author |-> books[recs[i].book_id].author,
                       borrow_date |-> strftime_ymd(recs[i].borrow_date),
                       due_date |-> recs[i].due_date,
                       return_date |->
                           IF recs[i].return_date # NULL
                           THEN strftime_ymd(recs[i].return_date)
                           ELSE NULL,
                       status |-> IF recs[i].return_date # NULL
                                  THEN "Returned" ELSE "Borrowed"]>>
                    \o rows(todo \ {i})
    IN rows(mine)

(* return {} of line 317 *)
EmptyReport == [is_empty |-> TRUE]

get_patron_status_report(recs, patron_id, at) ==
    IF InvalidPatronId(patron_id)
    THEN EmptyReport
    ELSE
    LET currently_borrowed == get_patron_borrowed_books(recs, patron_id, at)
        borrowed_books_list ==
            [k \in DOMAIN currently_borrowed |->
                BorrowedEntry(recs, patron_id, currently_borrowed[k], at)]
    IN [is_empty |-> FALSE,
        currently_borrowed |-> borrowed_books_list,
        total_late_fees |-> total_late_fees(borrowed_books_list),
        books_borrowed_count |-> Len(borrowed_books_list),
        borrowing_history |-> borrowing_history(recs, patron_id)]

(* The reporter beside the borrowing engine: books of StatusCopies copies, *)
(* loans made on two different days and reports asked for up to            *)
(* StatusLateDays days past the first due date.                            *)

StatusCopies == MaxCopies

StatusLateDays == 3

StatusInstants ==
    {0, (StatusLateDays - 1) * TicksPerDay,
     LoanTicks + StatusLateDays * TicksPerDay}

StatusReport(patron_id) ==
    /\ result = Idle
    /\ result' = [op |-> "status", patron_id |-> patron_id,
                  report |-> get_patron_status_report(borrow_records,
                                                      patron_id, now)]
    /\ UNCHANGED <<books, borrow_records, now, calls>>

StatusAdd ==
    /\ Len(books) < MaxBooks
    /\ \E isbn \in ValidIsbns :
        AddBook(<<"T">>, <<"A">>, isbn, PyInt(StatusCopies))

StatusBorrow ==
    /\ Len(borrow_records) < MaxRecords
    /\ \E patron_id \in ValidPatrons, book_id \in 1..MaxBooks :
        Borrow(patron_id, book_id)

StatusReturn ==
    /\ ClosedCount < MaxReturns
    /\ \E patron_id \in ValidPatrons, book_id \in 1..MaxBooks :
        Return(patron_id, book_id)

StatusTick == \E t \in StatusInstants : Tick(t)

DoStatus == \E patron_id \in ValidPatrons \cup InvalidPatrons :
                StatusReport(patron_id)

NextStatus ==
    StatusAdd \/ StatusBorrow \/ StatusReturn \/ StatusTick \/ DoStatus \/ Reply

SpecStatus == Init /\ [][NextStatus]_vars

(* The late fees of the entries, added up entry by entry from the last     *)
SumOfLateFees(entries) ==
    LET RECURSIVE upto(_)
        upto(n) == IF n = 0 THEN 0 ELSE upto(n - 1) + entries[n].late_fee
    IN upto(Len(entries))

(* C21: for a valid patron id, in any reachable state the status report    *)
(* has books_borrowed_count equal to the number of entries of              *)
(* currently_borrowed, which is the patron's number of open borrow         *)
(* records, and total_late_fees equal to the sum of the late_fee values of *)
(* those entries; for an invalid patron id the report is empty.            *)
C21_StatusReport ==
    result.op = "status" =>
        LET report == result.report
        IN IF InvalidPatronId(result.patron_id)
           THEN report = EmptyReport
           ELSE /\ report.books_borrowed_count = Len(report.currently_borrowed)
                /\ Len(report.currently_borrowed) =
                     Cardinality(OpenLoans(borrow_records, result.patron_id))
                /\ report.total_late_fees =
                     SumOfLateFees(report.currently_borrowed)

(* A report of two open loans has just been made, the older one           *)
(* StatusLateDays days overdue and the newer one a single day              *)
C21_Witness ==
    /\ result.op = "status"
    /\ ~InvalidPatronId(result.patron_id)
    /\ result.report.books_borrowed_count = 2
    /\ result.report.currently_borrowed[1].late_fee
         # result.report.currently_borrowed[2].late_fee
    /\ result.report.currently_borrowed[2].late_fee > 0
    /\ result.report.total_late_fees
         = StatusLateDays * HALF_RATE_CENTS + HALF_RATE_CENTS

----------------------------------------------------------------------------
(* C22: a borrow record moves only from open to closed.  Across any step   *)
(* no record is deleted, a closed record stays closed with the same        *)
(* return_date, nothing else of a record changes, and a record is closed   *)
(* only by return_book_by_patron.                                          *)
C22_RecordLifecycle ==
    [][/\ Len(borrow_records') >= Len(borrow_records)
       /\ \A i \in DOMAIN borrow_records :
            /\ ~IsOpen(borrow_records[i]) =>
                    borrow_records'[i] = borrow_records[i]
            /\ borrow_records'[i] # borrow_records[i] =>
                    /\ IsOpen(borrow_records[i])
                    /\ ~IsOpen(borrow_records'[i])
                    /\ borrow_records'[i] =
                         [borrow_records[i] EXCEPT
                            !.return_date = borrow_records'[i].return_date]
                    /\ result'.op = "return"]_vars

(* A second loan of a pair has just been returned, a day late, beside the  *)
(* closed record of the pair's first loan, which keeps its return date     *)
C22_Witness ==
    /\ result.op = "return"
    /\ result.success
    /\ \E i, j \in DOMAIN borrow_records :
        /\ borrow_records[i].patron_id = borrow_records[j].patron_id
        /\ borrow_records[i].book_id = borrow_records[j].book_id
        /\ ~IsOpen(borrow_records[i])
        /\ borrow_records[i].return_date < now
        /\ borrow_records[j].return_date = now

----------------------------------------------------------------------------
(* The late-fee calculator under a running clock: the databases of the     *)
(* late-fee specification, the clock advancing tick by tick between the    *)
(* assessments.                                                            *)

FeeTick ==
    /\ result = Idle
    /\ now < MaxFeeTick
    /\ now' = now + 1
    /\ UNCHANGED <<books, borrow_records, result, calls>>

NextClock == DoLateFee \/ FeeTick \/ Reply

SpecClock == FeeInit /\ [][NextClock]_vars

TimePasses == now' > now /\ UNCHANGED <<books, borrow_records>>

LatestIsOpen(p, b) ==
    /\ LatestRecordIndex(borrow_records, p, b) # 0
    /\ IsOpen(borrow_records[LatestRecordIndex(borrow_records, p, b)])

LatestIsClosed(p, b) ==
    /\ LatestRecordIndex(borrow_records, p, b) # 0
    /\ ~IsOpen(borrow_records[LatestRecordIndex(borrow_records, p, b)])

(* C23: while time advances and no operation runs, the assessment of a     *)
(* pair whose latest record is closed does not change, and the fee and the *)
(* day count of a pair whose latest record is open do not decrease.        *)
C23_FeeOverTime ==
    [][TimePasses =>
        \A p \in ValidPatrons, b \in ExistingBookIds :
            LET before == calculate_late_fee_for_book(borrow_records, p, b, now)
                after == calculate_late_fee_for_book(borrow_records', p, b, now')
            IN /\ LatestIsClosed(p, b) => after = before
               /\ LatestIsOpen(p, b) =>
                    /\ after.fee_amount >= before.fee_amount
                    /\ after.days_overdue >= before.days_overdue]_vars

(* A loan returned 3 days late has just been assessed 30 days after its    *)
(* return, at the fee of the return                                        *)
C23_Witness ==
    /\ result.op = "late_fee"
    /\ Len(borrow_records) = 1
    /\ ~IsOpen(borrow_records[1])
    /\ WholeDays(borrow_records[1].due_date, borrow_records[1].return_date) = 3
    /\ WholeDays(borrow_records[1].return_date, now) = 30
    /\ result.info.fee_amount = 3 * HALF_RATE_CENTS

----------------------------------------------------------------------------
(* The end of a success message of return_book_by_patron for a record      *)
(* returned d whole days after its due date                                *)
FeeClause(d) ==
    IF d <= 0
    THEN <<" No late fees.">>
    ELSE <<" Late fee: $", fmt_2f(ScheduledFee(d)), " (", d, " days overdue).">>

EndsWith(message, clause) ==
    /\ Len(message) >= Len(clause)
    /\ SubSeq(message, Len(message) - Len(clause) + 1, Len(message)) = clause

(* C24: the late fee and the day count in the success message of           *)
(* return_book_by_patron are the assessment of the record this call        *)
(* closed, its due_date against the return instant: the message ends with  *)
(* "No late fees." exactly when that record was returned without overdue   *)
(* days, and otherwise with "Late fee: $X.XX (N days overdue).".           *)
C24_ReturnMessage ==
    [][\A c \in CallInputs :
        (result'.op = "return" /\ Return(c[1], c[2]) /\ result'.success) =>
            \A i \in DOMAIN borrow_records :
                (IsOpen(borrow_records[i]) /\ ~IsOpen(borrow_records'[i])) =>
                    EndsWith(result'.message,
                             FeeClause(WholeDays(borrow_records[i].due_date,
                                                 now)))]_vars

----------------------------------------------------------------------------
(* The service over a database whose writes can fail: the calls are made   *)
(* one at a time, and each persistence write of a call either takes effect *)
(* and reports success or has no effect and reports failure.  The clock    *)
(* stands still.                                                           *)

AddBookWith(title, author, isbn, total_copies, insert_ok) ==
    LET r == add_book_to_catalog(title, author, isbn, total_copies, insert_ok)
    IN /\ result = Idle
       /\ books' = r.books
       /\ result' = [op |-> "add_book", success |-> r.success,
                     message |-> r.message]
       /\ UNCHANGED <<borrow_records, now, calls>>

BorrowWith(patron_id, book_id, insert_ok, availability_ok) ==
    LET r == borrow_book_by_patron(patron_id, book_id, insert_ok,
                                   availability_ok)
    IN /\ result = Idle
       /\ books' = r.books
       /\ borrow_records' = r.borrow_records
       /\ result' = [op |-> "borrow", success |-> r.success,
                     message |-> r.message, writes |-> r.writes]
       /\ UNCHANGED <<now, calls>>

ReturnWith(patron_id, book_id, update_ok, availability_ok) ==
    LET r == return_book_by_patron(patron_id, book_id, update_ok,
                                   availability_ok)
    IN /\ result = Idle
       /\ books' = r.books
       /\ borrow_records' = r.borrow_records
       /\ result' = [op |-> "return", success |-> r.success,
                     message |-> r.message, writes |-> r.writes]
       /\ UNCHANGED <<now, calls>>

FaultBooks == 1

FaultCalls == ValidPatrons \X (1..(FaultBooks + 1))

FaultAdd ==
    /\ Len(books) < FaultBooks
    /\ \E isbn \in ValidIsbns, total_copies \in {1, MaxCopies},
          insert_ok \in BOOLEAN :
        AddBookWith(<<"T">>, <<"A">>, isbn, PyInt(total_copies), insert_ok)

FaultBorrow ==
    /\ Len(borrow_records) < MaxRecords
    /\ \E c \in FaultCalls, insert_ok \in BOOLEAN, availability_ok \in BOOLEAN :
        BorrowWith(c[1], c[2], insert_ok, availability_ok)

FaultReturn ==
    \E c \in FaultCalls, update_ok \in BOOLEAN, availability_ok \in BOOLEAN :
        ReturnWith(c[1], c[2], update_ok, availability_ok)

NextFault == FaultAdd \/ FaultBorrow \/ FaultReturn \/ Reply

SpecFault == Init /\ [][NextFault]_vars

MSG_DB_INSERT == "Database error occurred while creating borrow record."
MSG_DB_AVAILABILITY == "Database error occurred while updating book availability."
MSG_DB_RETURN_DATE == "Database error occurred while updating return date."

(* The checks of borrow_book_by_patron pass for (p, b) *)
BorrowAdmitted(p, b) ==
    /\ p \in ValidPatrons
    /\ b \in DOMAIN books
    /\ books[b].available_copies > 0
    /\ Cardinality(OpenLoans(borrow_records, p)) < 5

(* C25: when in a borrow the record insert succeeds and the availability   *)
(* update reports failure, the call fails with a database-error message    *)
(* and nothing is rolled back: the new open record stays and               *)
(* available_copies is unchanged.  When the insert fails, the availability *)
(* update is not attempted and nothing changes.                            *)
C25_BorrowPartialFailure ==
    [][\A c \in FaultCalls :
        (result'.op = "borrow" /\ BorrowAdmitted(c[1], c[2])) =>
            /\ BorrowWith(c[1], c[2], TRUE, FALSE) =>
                /\ Failed(MSG_DB_AVAILABILITY)
                /\ books' = books
                /\ Len(borrow_records') = Len(borrow_records) + 1
                /\ SubSeq(borrow_records', 1, Len(borrow_records))
                     = borrow_records
                /\ LET r == borrow_records'[Len(borrow_records')]
                   IN r.patron_id = c[1] /\ r.book_id = c[2] /\ IsOpen(r)
            /\ \A availability_ok \in BOOLEAN :
                BorrowWith(c[1], c[2], FALSE, availability_ok) =>
                    /\ Failed(MSG_DB_INSERT)
                    /\ "update_book_availability"
                         \notin {result'.writes[k] : k \in DOMAIN result'.writes}
                    /\ DatabaseUnchanged]_vars

(* A borrow has just failed at the availability update: its record is in   *)
(* the database, open, and every copy of the book is still counted as      *)
(* available                                                               *)
C25_Witness ==
    /\ result.op = "borrow"
    /\ result.success = FALSE
    /\ result.message = <<MSG_DB_AVAILABILITY>>
    /\ borrow_records # <<>>
    /\ LET r == borrow_records[Len(borrow_records)]
       IN /\ IsOpen(r)
          /\ books[r.book_id].available_copies = books[r.book_id].total_copies

(* C26: when in a return the return-date update succeeds and the           *)
(* availability update reports failure, the call fails with a              *)
(* database-error message and nothing is rolled back: the record stays     *)
(* closed and available_copies is not incremented, and a later return for  *)
(* the loan fails with "No active borrow record found".  When the          *)
(* return-date update fails, the availability update is not attempted.     *)
C26_ReturnPartialFailure ==
    [][\A c \in FaultCalls :
        (/\ result'.op = "return"
         /\ c[2] \in DOMAIN books) =>
            /\ (/\ OpenLoansOf(borrow_records, c[1], c[2]) # {}
                /\ ReturnWith(c[1], c[2], TRUE, FALSE)) =>
                    /\ Failed(MSG_DB_AVAILABILITY)
                    /\ books' = books
                    /\ DOMAIN borrow_records' = DOMAIN borrow_records
                    /\ \A i \in OpenLoansOf(borrow_records, c[1], c[2]) :
                        borrow_records'[i] =
                            [borrow_records[i] EXCEPT !.return_date = now]
                    /\ OpenLoansOf(borrow_records', c[1], c[2]) = {}
            /\ \A update_ok \in BOOLEAN, availability_ok \in BOOLEAN :
                /\ (/\ OpenLoansOf(borrow_records, c[1], c[2]) = {}
                    /\ ReturnWith(c[1], c[2], update_ok, availability_ok)) =>
                        (Failed(MSG_NO_ACTIVE) /\ DatabaseUnchanged)
                /\ (/\ OpenLoansOf(borrow_records, c[1], c[2]) # {}
                    /\ ReturnWith(c[1], c[2], FALSE, availability_ok)) =>
                        /\ Failed(MSG_DB_RETURN_DATE)
                        /\ "update_book_availability"
                             \notin {result'.writes[k] :
                                        k \in DOMAIN result'.writes}
                        /\ DatabaseUnchanged]_vars

(* The copy of a closed loan is missing from the shelf count: after a      *)
(* return that failed at the availability update, the next return of the   *)
(* loan has just been refused for want of an open record                   *)
C26_Witness ==
    /\ result.op = "return"
    /\ result.success = FALSE
    /\ result.message = <<MSG_NO_ACTIVE>>
    /\ \E b \in DOMAIN books :
        /\ books[b].available_copies < books[b].total_copies
        /\ \E i \in DOMAIN borrow_records : borrow_records[i].book_id = b
        /\ \A i \in DOMAIN borrow_records :
            borrow_records[i].book_id = b => ~IsOpen(borrow_records[i])

(* C28: in every state reached by add_book, borrow and return calls made   *)
(* one at a time, any persistence write of which may report failure, every *)
(* book has 0 <= available_copies <= total_copies.                         *)
C28_AvailabilityInRangeUnderFailures ==
    \A b \in DOMAIN books :
        books[b].available_copies \in 0..books[b].total_copies

----------------------------------------------------------------------------
OpenRecordsOfBook(b) ==
    {i \in DOMAIN borrow_records :
        borrow_records[i].book_id = b /\ IsOpen(borrow_records[i])}

(* C29: in every state reached by add_book, borrow and return calls made   *)
(* one at a time with every persistence write succeeding, for every book   *)
(* available_copies plus the number of open borrow records of the book     *)
(* equals total_copies.                                                    *)
C29_CopiesConserved ==
    \A b \in DOMAIN books :
        books[b].available_copies + Cardinality(OpenRecordsOfBook(b))
            = books[b].total_copies

----------------------------------------------------------------------------
(* Borrowing a book again: loans and returns of one book, with the clock   *)
(* read at the start, 3 and 4 days past the first due date, and on and     *)
(* 2 days past the due date of a loan made at the second of these.         *)

ReborrowInstants ==
    {0,
     LoanTicks + 3 * TicksPerDay,
     LoanTicks + 4 * TicksPerDay,
     2 * LoanTicks + 4 * TicksPerDay,
     2 * LoanTicks + 6 * TicksPerDay}

ReborrowCalls == ValidPatrons \X {1}

ReborrowAdd ==
    /\ books = <<>>
    /\ \E total_copies \in 1..MaxCopies :
        AddBook(<<"T">>, <<"A">>, ISBN_1, PyInt(total_copies))

ReborrowBorrow ==
    /\ Len(borrow_records) < MaxRecords
    /\ \E c \in ReborrowCalls : Borrow(c[1], c[2])

ReborrowReturn == \E c \in ReborrowCalls : Return(c[1], c[2])

ReborrowLateFee == \E c \in ReborrowCalls : LateFee(c[1], c[2])

ReborrowTick == \E t \in ReborrowInstants : Tick(t)

NextReborrow ==
    \/ ReborrowAdd
    \/ ReborrowBorrow
    \/ ReborrowReturn
    \/ ReborrowLateFee
    \/ ReborrowTick
    \/ Reply

SpecReborrow == Init /\ [][NextReborrow]_vars

(* The record of the pair borrowed last: records are inserted in the order *)
(* of their borrow dates                                                   *)
MostRecentlyBorrowed(p, b) ==
    CHOOSE i \in RecordsOf(p, b) : \A j \in RecordsOf(p, b) : j <= i

(* C30: calculate_late_fee_for_book(p, b) assesses the most recently       *)
(* borrowed record of (p, b).  After a late return it reports the fee of   *)
(* that return at every later instant until p borrows b again; from that   *)
(* borrow on it assesses the new open record, with fee 0.00 until the new  *)
(* due date has passed, and no longer reports the earlier fee.             *)
C30_LatestLoanAssessed ==
    [][\A c \in ReborrowCalls :
        (/\ result'.op = "late_fee"
         /\ LateFee(c[1], c[2])
         /\ RecordsOf(c[1], c[2]) # {}) =>
            LET r == borrow_records[MostRecentlyBorrowed(c[1], c[2])]
                reference == IF IsOpen(r) THEN now ELSE r.return_date
                d == WholeDays(r.due_date, reference)
            IN /\ result'.info.fee_amount = ScheduledFee(d)
               /\ result'.info.days_overdue = (IF d > 0 THEN d ELSE 0)
               /\ (IsOpen(r) /\ now <= r.due_date) =>
                    result'.info.fee_amount = 0]_vars

(* A pair returned 3 days late and borrowed again has just been assessed   *)
(* on the new due date: no fee                                             *)
C30_Witness ==
    /\ result.op = "late_fee"
    /\ result.info.fee_amount = 0
    /\ Len(borrow_records) = 2
    /\ borrow_records[1].patron_id = borrow_records[2].patron_id
    /\ ~IsOpen(borrow_records[1])
    /\ WholeDays(borrow_records[1].due_date, borrow_records[1].return_date) = 3
    /\ IsOpen(borrow_records[2])
    /\ now = borrow_records[2].due_date

----------------------------------------------------------------------------
(* Concurrent borrows.  Each caller runs borrow_book_by_patron; a step of  *)
(* a call is one persistence call together with the code that follows it   *)
(* up to the next persistence call, and the steps of different calls       *)
(* interleave freely.  calls[k] holds the position of caller k (the        *)
(* persistence call it makes next) and its local variables.                *)

RaceCallers == <<PATRON_A, PATRON_B>>

RaceBookIds == {1, 2}

RaceBook(total_copies) ==
    [id |-> 1, title |-> <<"T">>, author |-> <<"A">>, isbn |-> ISBN_1,
     total_copies |-> total_copies, available_copies |-> total_copies]

CallIdle(patron_id) == [patron_id |-> patron_id, pc |-> "idle"]

CallDone(call, success, message) ==
    [patron_id |-> call.patron_id, pc |-> "done", book_id |-> call.book_id,
     book |-> call.book, success |-> success, message |-> message]

RaceInit ==
    /\ \E total_copies \in 1..MaxCopies : books = <<RaceBook(total_copies)>>
    /\ borrow_records = <<>>
    /\ now = 0
    /\ result = Idle
    /\ calls = [k \in DOMAIN RaceCallers |-> CallIdle(RaceCallers[k])]

(* The write of line 98 made only while a copy is left *)
DecrementGuard_conditional(bks, book_id) == bks[book_id].available_copies > 0

(* Lines 93-98: between the check of line 80 and the write of line 98      *)
(* available_copies is not looked at again                                 *)
DecrementGuard(bks, book_id) == TRUE

(* The call is made; line 72 *)
RaceBegin(k, book_id) ==
    /\ calls[k].pc = "idle"
    /\ calls' = [calls EXCEPT ![k] =
            IF InvalidPatronId(calls[k].patron_id)
            THEN CallDone([patron_id |-> calls[k].patron_id,
                           book_id |-> book_id, book |-> None],
                          FALSE,
                          <<"Invalid patron ID. Must be exactly 6 digits.">>)
            ELSE [patron_id |-> calls[k].patron_id, pc |-> "get_book_by_id",
                  book_id |-> book_id, book |-> None]]
    /\ UNCHANGED <<books, borrow_records, now, result>>

(* Lines 76-81 *)
RaceGetBook(k) ==
    /\ calls[k].pc = "get_book_by_id"
    /\ LET book == get_book_by_id(calls[k].book_id)
           call == [calls[k] EXCEPT !.book = book]
       IN calls' = [calls EXCEPT ![k] =
            IF book = None
            THEN CallDone(call, FALSE, <<"Book not found.">>)
            ELSE IF NotAvailable(book)
            THEN CallDone(call, FALSE,
                          <<"This book is currently not available.">>)
            ELSE [call EXCEPT !.pc = "get_patron_borrow_count"]]
    /\ UNCHANGED <<books, borrow_records, now, result>>

(* Lines 84-91 *)
RaceCount(k) ==
    /\ calls[k].pc = "get_patron_borrow_count"
    /\ calls' = [calls EXCEPT ![k] =
            IF LimitReached(get_patron_borrow_count(calls[k].patron_id))
            THEN CallDone(calls[k], FALSE,
                    <<"You have reached the maximum borrowing limit of 5 books.">>)
            ELSE [calls[k] EXCEPT !.pc = "insert_borrow_record"]]
    /\ UNCHANGED <<books, borrow_records, now, result>>

(* Lines 94-96, the insert succeeding *)
RaceInsert(k) ==
    /\ calls[k].pc = "insert_borrow_record"
    /\ borrow_records' =
            insert_borrow_record(borrow_records, calls[k].patron_id,
                                 calls[k].book_id, now, DueDate(now))
    /\ calls' = [calls EXCEPT ![k].pc = "update_book_availability"]
    /\ UNCHANGED <<books, now, result>>

(* Lines 98-102 *)
RaceUpdate(k) ==
    /\ calls[k].pc = "update_book_availability"
    /\ IF DecrementGuard(books, calls[k].book_id)
       THEN /\ books' = update_book_availability(books, calls[k].book_id,
                                                 BORROW_CHANGE)
            /\ calls' = [calls EXCEPT ![k] =
                    CallDone(calls[k], TRUE,
                             <<"Successfully borrowed \"", calls[k].book.title,
                               "\". Due date: ", strftime_ymd(DueDate(now)),
                               ".">>)]
       ELSE /\ books' = books
            /\ calls' = [calls EXCEPT ![k] =
                    CallDone(calls[k], FALSE,
                        <<"Database error occurred while updating book availability.">>)]
    /\ UNCHANGED <<borrow_records, now, result>>

(* The caller takes the return value and is free to call again *)
RaceReturn(k) ==
    /\ calls[k].pc = "done"
    /\ calls' = [calls EXCEPT ![k] = CallIdle(calls[k].patron_id)]
    /\ UNCHANGED <<books, borrow_records, now, result>>

NextRace ==
    \/ \E k \in DOMAIN calls, book_id \in RaceBookIds : RaceBegin(k, book_id)
    \/ \E k \in DOMAIN calls : RaceGetBook(k)
    \/ \E k \in DOMAIN calls : RaceCount(k)
    \/ \E k \in DOMAIN calls : RaceInsert(k)
    \/ \E k \in DOMAIN calls : RaceUpdate(k)
    \/ \E k \in DOMAIN calls : RaceReturn(k)

SpecRace == RaceInit /\ [][NextRace]_vars

(* Call k has returned after reading the book with one copy available *)
SawLastCopy(k, b) ==
    /\ calls[k].pc = "done"
    /\ calls[k].book_id = b
    /\ calls[k].book # None
    /\ calls[k].book.available_copies = 1

(* C27: borrow is check-then-act, not an atomic conditional decrement.     *)
(* When two borrow calls by different patrons for the same book are        *)
(* interleaved at the granularity of persistence calls and both read       *)
(* available_copies = 1, both pass the availability check and both         *)
(* succeed, leaving an open record of each for the one copy and            *)
(* available_copies below 0.                                               *)
C27_BorrowRace ==
    \A k, l \in DOMAIN calls, b \in DOMAIN books :
        (k # l /\ SawLastCopy(k, b) /\ SawLastCopy(l, b)) =>
            /\ calls[k].success
            /\ calls[l].success
            /\ OpenLoansOf(borrow_records, calls[k].patron_id, b) # {}
            /\ OpenLoansOf(borrow_records, calls[l].patron_id, b) # {}
            /\ books[b].available_copies < 0

(* Both calls have returned success for a book of one copy, which now has  *)
(* two open records and available_copies = -1                              *)
C27_Witness ==
    /\ \A k \in DOMAIN calls : calls[k].pc = "done" /\ calls[k].success
    /\ books[1].total_copies = 1
    /\ books[1].available_copies = -1
    /\ Cardinality(OpenRecordsOfBook(1)) = 2
    /\ calls[1].patron_id # calls[2].patron_id

====
